---- MODULE Spec2Model ----
(***************************************************************************)
(* Model of DataAgent (src/src/agent.ts): the /dataset_stream ingestion    *)
(* pipeline with its event stream and retained Schema Snapshot, the        *)
(* /replan_charts handler, and its pure functions: the Row Cleaner         *)
(* (cleanRows), the Format Router, the Arbitrary-JSON Normalizer, the CSV  *)
(* export and tokenizer, and the chart planner's fallback.                 *)
(***************************************************************************)
EXTENDS Integers, Sequences, FiniteSets, TLC

VARIABLES
    env,        \* this.env: [MEM |-> is the Vectorize binding configured]
    state,      \* this.state: [lastPlan, lastSchema, lastSys]
    writeLog,   \* history: the ingestions that called setState, in order
    pc,         \* per ingestion: position of its background task
    req,        \* per ingestion: the request body {url, text, name, sys, embed}
    stream,     \* per ingestion: the events written to the channel, in order
    broken,     \* per ingestion: the consumer cancelled the readable side
    closeCalls, \* per ingestion: calls of writer.close()
    err,        \* per ingestion: message of the exception caught, "" if none
    table,      \* per ingestion: [columns, rows] of the task
    chosen,     \* per ingestion: rows handed to embedRows
    rowIdx,     \* per ingestion: loop index i of embedRows
    count,      \* per ingestion: count of embedRows
    upserts,    \* per ingestion: rowIndex of every MEM.upsert performed, in order
    caught,     \* history, per ingestion: the failures caught and recovered in the task
    rpc,        \* /replan_charts: position of the handler
    rmem,       \* /replan_charts: the snapshot read (mem)
    rresp,      \* /replan_charts: status of the last response, 0 if none
    rcount,     \* /replan_charts: requests served
    fnPc,       \* position of the pure-function harness
    fnIn,       \* its input: [columns, rows]
    fnOut,      \* cleanRows(fnIn)
    fnOut2      \* cleanRows(fnOut)

agentVars == <<env, state, writeLog>>
taskVars == <<pc, req, stream, broken, closeCalls, err, table, chosen, rowIdx, count, upserts,
              caught>>
replanVars == <<rpc, rmem, rresp, rcount>>
fnVars == <<fnPc, fnIn, fnOut, fnOut2>>
vars == <<agentVars, taskVars, replanVars, fnVars>>

(***************************************************************************)
(* JavaScript values that occur in cells.  A number is the decimal         *)
(* m / 10^e (m an integer, e >= 0, no trailing zero in the fraction); a    *)
(* string is a sequence of one-character strings.                          *)
(***************************************************************************)
Str(s) == [t |-> "str", s |-> s, m |-> 0, e |-> 0]
Num(m, e) == [t |-> "num", s |-> <<>>, m |-> m, e |-> e]
Null == [t |-> "null", s |-> <<>>, m |-> 0, e |-> 0]
Undef == [t |-> "undef", s |-> <<>>, m |-> 0, e |-> 0]

\* obj[c] on a JavaScript object: undefined when the key is absent
Get(r, c) == IF c \in DOMAIN r THEN r[c] ELSE Undef

\* v === '' || v == null
IsEmptyCell(v) == \/ (v.t = "str" /\ v.s = <<>>)
                  \/ v.t \in {"null", "undef"}

Range(s) == {s[i] : i \in 1..Len(s)}

WhiteSpace == {" "}
Digits == {"0", "1", "2", "3", "4", "5", "6", "7", "8", "9"}

DigitVal(ch) ==
    CASE ch = "0" -> 0 [] ch = "1" -> 1 [] ch = "2" -> 2 [] ch = "3" -> 3
      [] ch = "4" -> 4 [] ch = "5" -> 5 [] ch = "6" -> 6 [] ch = "7" -> 7
      [] ch = "8" -> 8 [] ch = "9" -> 9

\* String.prototype.trim
RECURSIVE TrimLeft(_)
TrimLeft(s) == IF s # <<>> /\ Head(s) \in WhiteSpace THEN TrimLeft(Tail(s)) ELSE s

RECURSIVE TrimRight(_)
TrimRight(s) ==
    IF s # <<>> /\ s[Len(s)] \in WhiteSpace
    THEN TrimRight(SubSeq(s, 1, Len(s) - 1)) ELSE s

Trim(s) == TrimRight(TrimLeft(s))

\* /^[-\d.,]+$/.test(s)
NumericLike(s) == s # <<>> /\ \A i \in 1..Len(s) : s[i] \in Digits \cup {"-", ".", ","}

\* s.replace(/,/g, '')
StripCommas(s) == SelectSeq(s, LAMBDA ch : ch # ",")

\* the longest prefix of s made of digits
RECURSIVE DigitRun(_)
DigitRun(s) ==
    IF s # <<>> /\ Head(s) \in Digits THEN <<Head(s)>> \o DigitRun(Tail(s)) ELSE <<>>

RECURSIVE DigitsToInt(_)
DigitsToInt(s) ==
    IF s = <<>> THEN 0 ELSE 10 * DigitsToInt(SubSeq(s, 1, Len(s) - 1)) + DigitVal(s[Len(s)])

\* drop the trailing zeros of a fraction
RECURSIVE DropZeros(_)
DropZeros(s) ==
    IF s # <<>> /\ s[Len(s)] = "0" THEN DropZeros(SubSeq(s, 1, Len(s) - 1)) ELSE s

NaN == [t |-> "nan", s |-> <<>>, m |-> 0, e |-> 0]

\* parseFloat(s) for s over digits, '-' and '.': an optional sign, digits, an
\* optional '.' and digits; the longest such prefix; NaN when it has no digit.
ParseFloat(s) ==
    LET neg == s # <<>> /\ Head(s) = "-"
        body == IF neg THEN Tail(s) ELSE s
        ip == DigitRun(body)
        rest == SubSeq(body, Len(ip) + 1, Len(body))
        fp == IF rest # <<>> /\ Head(rest) = "." THEN DigitRun(Tail(rest)) ELSE <<>>
        frac == DropZeros(fp)
        mag == DigitsToInt(ip \o frac)
    IN IF ip = <<>> /\ fp = <<>> THEN NaN
       ELSE Num(IF neg THEN 0 - mag ELSE mag, Len(frac))

\* the other values of a parsed JSON body: booleans, arrays, and objects with
\* their keys in insertion order
Bool(b) == [t |-> "bool", s |-> <<>>, m |-> IF b THEN 1 ELSE 0, e |-> 0]
JArr(items) == [t |-> "arr", items |-> items]
JObj(keys, get) == [t |-> "obj", keys |-> keys, get |-> get]

DigitChar(n) ==
    CASE n = 0 -> "0" [] n = 1 -> "1" [] n = 2 -> "2" [] n = 3 -> "3"
      [] n = 4 -> "4" [] n = 5 -> "5" [] n = 6 -> "6" [] n = 7 -> "7"
      [] n = 8 -> "8" [] n = 9 -> "9"

\* the decimal digits of n >= 0, at least width of them
RECURSIVE IntToDigits(_, _)
IntToDigits(n, width) ==
    IF n < 10 /\ width <= 1 THEN <<DigitChar(n)>>
    ELSE Append(IntToDigits(n \div 10, width - 1), DigitChar(n % 10))

\* String(x) for the number x = m / 10^e
NumToStr(m, e) ==
    LET ds == IntToDigits(IF m < 0 THEN 0 - m ELSE m, e + 1)
        ip == SubSeq(ds, 1, Len(ds) - e)
        fp == SubSeq(ds, Len(ds) - e + 1, Len(ds))
    IN (IF m < 0 THEN <<"-">> ELSE <<>>) \o ip \o (IF e > 0 THEN <<".">> \o fp ELSE <<>>)

\* Array.prototype.join
RECURSIVE Join(_, _)
Join(strs, sep) ==
    IF strs = <<>> THEN <<>>
    ELSE IF Len(strs) = 1 THEN strs[1]
    ELSE strs[1] \o sep \o Join(Tail(strs), sep)

\* String(v)
RECURSIVE String(_)
String(v) ==
    CASE v.t = "str" -> v.s
      [] v.t = "num" -> NumToStr(v.m, v.e)
      [] v.t = "null" -> <<"n", "u", "l", "l">>
      [] v.t = "undef" -> <<"u", "n", "d", "e", "f", "i", "n", "e", "d">>
      [] v.t = "nan" -> <<"N", "a", "N">>
      [] v.t = "bool" -> IF v.m = 1 THEN <<"t", "r", "u", "e">> ELSE <<"f", "a", "l", "s", "e">>
      [] v.t = "obj" -> <<"[", "o", "b", "j", "e", "c", "t", " ", "O", "b", "j", "e", "c", "t", "]">>
      [] v.t = "arr" ->
            Join([k \in 1..Len(v.items) |->
                     IF v.items[k].t \in {"null", "undef"} THEN <<>> ELSE String(v.items[k])],
                 <<",">>)

\* toNum of cleanRows: the pattern is tested on String(v) whatever the type of v
toNum(v) ==
    IF v.t = "num" THEN v
    ELSE LET s == String(v)
         IN IF ~NumericLike(s) THEN v
            ELSE LET n == ParseFloat(StripCommas(s))
                 IN IF n.t = "nan" THEN v ELSE n

\* CleanCell without the trim: rr[c] = toNum(v)
CleanCell_NoTrim(v) == toNum(v)

\* rr[c] = typeof v === 'string' ? v.trim() : v;  rr[c] = toNum(rr[c])
CleanCell(v) == toNum(IF v.t = "str" THEN Str(Trim(v.s)) ELSE v)

\* the row rr built from r over cols: every name of cols becomes a key
CleanRow(cols, r) == [c \in Range(cols) |-> CleanCell(Get(r, c))]

\* JSON.stringify(rr): keys in insertion order (the order of cols, the same for
\* every rr), a key whose value is undefined is left out
RowKey(rr) == [c \in {d \in DOMAIN rr : rr[d].t # "undef"} |-> rr[c]]

\* the loop over rows of cleanRows: drops empty rows and rows already seen
RECURSIVE CleanLoop(_, _, _, _)
CleanLoop(cols, rows, seen, out) ==
    IF rows = <<>> THEN out
    ELSE LET rr == CleanRow(cols, Head(rows))
             isEmpty == \A c \in Range(cols) : IsEmptyCell(rr[c])
             key == RowKey(rr)
         IN IF isEmpty \/ key \in seen
            THEN CleanLoop(cols, Tail(rows), seen, out)
            ELSE CleanLoop(cols, Tail(rows), seen \cup {key}, Append(out, rr))

\* delete r[k] for every key k not in keep
DeleteKeys(r, keep) == [c \in DOMAIN r \cap Range(keep) |-> r[c]]

\* cleanRows with the keys of pruned columns left in the rows
cleanRows_NoDelete(columns, rows) ==
    LET out == CleanLoop(columns, rows, {}, <<>>)
        keep == SelectSeq(columns,
                    LAMBDA c : \E i \in 1..Len(out) : ~IsEmptyCell(out[i][c]))
    IN IF Len(keep) > 0 /\ Len(keep) # Len(columns)
       THEN [columns |-> keep, rows |-> out]
       ELSE [columns |-> columns, rows |-> out]

\* cleanRows without the pruning of columns
cleanRows_NoPrune(columns, rows) ==
    [columns |-> columns, rows |-> CleanLoop(columns, rows, {}, <<>>)]

cleanRows(columns, rows) ==
    LET out == CleanLoop(columns, rows, {}, <<>>)
        keep == SelectSeq(columns,
                    LAMBDA c : \E i \in 1..Len(out) : ~IsEmptyCell(out[i][c]))
    IN IF Len(keep) > 0 /\ Len(keep) # Len(columns)
       THEN [columns |-> keep,
             rows |-> [i \in 1..Len(out) |-> DeleteKeys(out[i], keep)]]
       ELSE [columns |-> columns, rows |-> out]

(***************************************************************************)
(* The agent: requests, collaborator responses and helpers.                *)
(***************************************************************************)
Ingestions == {"A", "B"}

Min(x, y) == IF x < y THEN x ELSE y

\* arr.slice(0, n)
Slice(s, n) == SubSeq(s, 1, Min(n, Len(s)))

SampleCap == 2000
RankSampleCap == 1200
EmbedCap == 200
EmbedDims == 768
ChartCap == 3
NumericSampleCap == 200
NumericMinTotal == 5

NoSys == "(undefined)"

NoSchema == [defined |-> FALSE, name |-> "", url |-> "", columns |-> <<>>, sample |-> <<>>]

initialState == [lastPlan |-> "(undefined)", lastSchema |-> NoSchema, lastSys |-> NoSys]

Url(i) == IF i = "A" THEN "https://www.a.example/data.json" ELSE "https://b.example/feed.csv"
Text(i) == IF i = "A" THEN "pasted text A" ELSE "pasted text B"
ProvidedName(i) == IF i = "A" THEN "dataset A" ELSE "dataset B"
Sys(i) == IF i = "A" THEN "focus on A" ELSE "focus on B"
ReplanSys == "replan focus"

\* request bodies of /dataset_stream; "" stands for a field that is not given
Bodies(i) == [url : {"", Url(i)}, text : {"", Text(i)}, name : {"", ProvidedName(i)},
              sys : {Sys(i)}, embed : BOOLEAN]

\* new URL(u).hostname.replace(/^www\./, ''), 'source' when u is no URL
hostName(u) ==
    CASE u = "https://www.a.example/data.json" -> "a.example"
      [] u = "https://b.example/feed.csv" -> "b.example"
      [] OTHER -> "source"

\* providedName || (datasetUrl ? this.hostName(datasetUrl) : 'pasted-data')
NameOf(b) == IF b.name # "" THEN b.name
             ELSE IF b.url # "" THEN hostName(b.url) ELSE "pasted-data"

\* datasetUrl ?? '(pasted)'
SourceOf(b) == IF b.url # "" THEN b.url ELSE "(pasted)"

\* what fetch(datasetUrl) does
FetchOutcomes == {"ok", "non2xx", "network error"}

\* what the parsers make of the payload of ingestion i: a parse failure, or the
\* parsed table before cleaning
Mark(i) == IF i = "A" THEN "1" ELSE "2"

RawTable(i) ==
    [columns |-> <<"a", "b">>,
     rows |-> << [a |-> Str(<<Mark(i)>>), b |-> Str(<<>>)],
                 [a |-> Str(<<" ", "x", Mark(i)>>), b |-> Str(<<>>)],
                 [a |-> Str(<<Mark(i)>>), b |-> Str(<<" ">>)] >>]

EmptyTable == [columns |-> <<>>, rows |-> <<>>]

Payloads(i) == {[bad |-> TRUE, table |-> EmptyTable],
                [bad |-> FALSE, table |-> EmptyTable],
                [bad |-> FALSE, table |-> RawTable(i)]}

\* what the rank call gives: it throws, answers text that is no JSON array, or
\* answers a JSON array (an item: is it an integer, and which)
RankItem(n) == [int |-> TRUE, v |-> n]
NotAnInt == [int |-> FALSE, v |-> 0]

RankResponses ==
    {[kind |-> "throw", arr |-> <<>>],
     [kind |-> "text", arr |-> <<>>],
     [kind |-> "array", arr |-> <<>>],
     [kind |-> "array", arr |-> <<RankItem(1), NotAnInt, RankItem(0)>>],
     [kind |-> "array", arr |-> <<RankItem(0), RankItem(5)>>]}

\* what embedTextRobust returns for a non-empty text: the length of the vector,
\* 0 for vec: null (the call threw or its output held no vector)
EmbedResults == {EmbedDims, 3, 0}

\* chart specs; "" stands for a field that is not given
ChartSpec(title, type, x, y, agg) == [title |-> title, type |-> type, x |-> x, y |-> y, agg |-> agg]

PlannerResponses ==
    {[kind |-> "throw", arr |-> <<>>],
     [kind |-> "text", arr |-> <<>>],
     [kind |-> "array", arr |-> <<ChartSpec("t1", "pie", "a", "", "count"),
                                  ChartSpec("t2", "", "a", "", "")>>]}

\* /^-?\d+(\.\d+)?$/.test(s)
IsPlainNumber(s) ==
    LET body == IF s # <<>> /\ Head(s) = "-" THEN Tail(s) ELSE s
        ip == DigitRun(body)
        rest == SubSeq(body, Len(ip) + 1, Len(body))
    IN /\ ip # <<>>
       /\ \/ rest = <<>>
          \/ /\ Head(rest) = "."
             /\ Len(rest) > 1
             /\ DigitRun(Tail(rest)) = Tail(rest)

numericColumns(columns, rows) ==
    LET sample == Slice(rows, NumericSampleCap)
        filled(c) == {i \in 1..Len(sample) : ~IsEmptyCell(Get(sample[i], c))}
        numeric(c) == {i \in filled(c) :
                          \/ Get(sample[i], c).t = "num"
                          \/ IsPlainNumber(String(Get(sample[i], c)))}
    IN SelectSeq(columns, LAMBDA c :
           /\ Cardinality(filled(c)) >= NumericMinTotal
           /\ 10 * Cardinality(numeric(c)) > 7 * Cardinality(filled(c)))

\* columns[0]
FirstColumn(columns) == IF columns = <<>> THEN "undefined" ELSE columns[1]

\* planCharts once this.env.AI.run has answered with resp: txt is '[]' when
\* the answer holds no response ("missing"), JSON.parse(txt) gives an array
\* ("array", "missing"), some other JSON value ("object"), or throws ("text",
\* and "empty" for the response '')
planCharts(columns, rowsSample, resp) ==
    IF resp.kind \in {"array", "missing"}
    THEN Slice(SelectSeq(resp.arr, LAMBDA sp : sp.type # "" /\ sp.x # ""), ChartCap)
    ELSE LET numerics == numericColumns(columns, rowsSample)
         IN IF numerics # <<>>
            THEN <<ChartSpec("Mean", "bar", FirstColumn(columns), numerics[1], "mean")>>
            ELSE <<ChartSpec("Count", "bar", FirstColumn(columns), "", "count")>>

\* an element of the array rankRowsForEmbedding returns: rows[i], undefined
\* when i is no index of rows
RowAt(rows, n) == IF n >= 0 /\ n < Len(rows)
                  THEN [defined |-> TRUE, row |-> rows[n + 1]]
                  ELSE [defined |-> FALSE, row |-> [c \in {} |-> Undef]]

\* rankRowsForEmbedding once this.env.AI.run has answered with resp (or thrown)
rankRowsForEmbedding(columns, rows, resp) ==
    LET compact == Slice(rows, Min(Len(rows), RankSampleCap))
        ints == SelectSeq(resp.arr, LAMBDA it : it.int)
        picked == IF resp.kind = "array"
                  THEN Slice([j \in 1..Len(ints) |-> ints[j].v], EmbedCap)
                  ELSE <<>>
        chosenIdx == IF picked = <<>>
                     THEN [j \in 1..Min(EmbedCap, Len(compact)) |-> j - 1]
                     ELSE picked
    IN [j \in 1..Len(chosenIdx) |-> RowAt(rows, chosenIdx[j])]

\* events of the stream
Event(ev, msg, n, specs) == [ev |-> ev, msg |-> msg, n |-> n, specs |-> specs]
Log(msg, n) == Event("log", msg, n, <<>>)

(***************************************************************************)
(* datasetStream: the background task of one ingestion.  An action is the  *)
(* code between two awaits; `await sse(...)` ends every action that emits. *)
(***************************************************************************)
\* await sse(event, data) inside the try block: the event is written, or the
\* write rejects because the readable side was cancelled and control passes to
\* the catch block.  sse writes the `event:` line and the `data:` line; an
\* event is on the stream once both are written, so a cancel between the two
\* writes is the cancel before the event.
Sse(i, e, next) ==
    IF broken[i]
    THEN /\ stream' = stream
         /\ err' = [err EXCEPT ![i] = "write failed"]
         /\ pc' = [pc EXCEPT ![i] = "catch"]
    ELSE /\ stream' = [stream EXCEPT ![i] = Append(@, e)]
         /\ err' = err
         /\ pc' = [pc EXCEPT ![i] = next]

\* throw new Error(msg) inside the try block
Throw(i, msg) ==
    /\ stream' = stream
    /\ err' = [err EXCEPT ![i] = msg]
    /\ pc' = [pc EXCEPT ![i] = "catch"]

NoRequest == [url |-> "", text |-> "", name |-> "", sys |-> "", embed |-> FALSE]

\* onRequest, /dataset_stream: 400 without url and text, else datasetStream
\* opens the channel and starts the task
Request(i) ==
    /\ pc[i] = "idle"
    /\ \E body \in Bodies(i) :
          /\ req' = [req EXCEPT ![i] = body]
          /\ pc' = [pc EXCEPT ![i] =
                       IF body.url = "" /\ body.text = "" THEN "rejected" ELSE "start"]
    /\ UNCHANGED <<agentVars, replanVars, fnVars, caught, stream, broken, closeCalls, err,
                   table, chosen, rowIdx, count, upserts>>

\* the first log event: 'Fetching dataset: ...' or 'Parsing pasted data...'
LogStart(i) ==
    /\ pc[i] = "start"
    /\ IF req[i].url # ""
       THEN Sse(i, Log("Fetching dataset", 0), "fetch")
       ELSE Sse(i, Log("Parsing pasted data", 0), "parse")
    /\ UNCHANGED <<agentVars, replanVars, fnVars, caught, req, broken, closeCalls,
                   table, chosen, rowIdx, count, upserts>>

\* await fetch(datasetUrl); if (!resp.ok) throw
Fetch(i) ==
    /\ pc[i] = "fetch"
    /\ \E o \in FetchOutcomes :
          IF o = "ok"
          THEN /\ pc' = [pc EXCEPT ![i] = "parse"]
               /\ UNCHANGED <<stream, err>>
          ELSE Throw(i, IF o = "non2xx" THEN "Fetch failed" ELSE o)
    /\ UNCHANGED <<agentVars, replanVars, fnVars, caught, req, broken, closeCalls,
                   table, chosen, rowIdx, count, upserts>>

\* the body is read and parsed (resp.json() or JSON.parse may throw), then the
\* 'Parsed ...' log event
Parse(i) ==
    /\ pc[i] = "parse"
    /\ \E p \in Payloads(i) :
          IF p.bad
          THEN /\ Throw(i, IF req[i].url # "" THEN "Unexpected token"
                           ELSE "Invalid JSON in pasted text.")
               /\ table' = table
          ELSE /\ table' = [table EXCEPT ![i] = p.table]
               /\ Sse(i, Log("Parsed", Len(p.table.rows)), "clean")
    /\ UNCHANGED <<agentVars, replanVars, fnVars, caught, req, broken, closeCalls,
                   chosen, rowIdx, count, upserts>>

\* cleanRows, then the 'Cleaned data' log event
Clean(i) ==
    /\ pc[i] = "clean"
    /\ LET cleaned == cleanRows(table[i].columns, table[i].rows)
       IN /\ table' = [table EXCEPT ![i] = cleaned]
          /\ Sse(i, Log("Cleaned data", Len(cleaned.rows)), "remember")
    /\ UNCHANGED <<agentVars, replanVars, fnVars, caught, req, broken, closeCalls,
                   chosen, rowIdx, count, upserts>>

\* the snapshot this.setState stores
Snapshot(i) ==
    [defined |-> TRUE, name |-> NameOf(req[i]), url |-> SourceOf(req[i]),
     columns |-> table[i].columns, sample |-> Slice(table[i].rows, SampleCap)]

\* Remember with lastSys: this.state.lastSys ?? sys
Remember_KeepSys(i) ==
    /\ pc[i] = "remember"
    /\ state' = [state EXCEPT !.lastSchema = Snapshot(i),
                              !.lastSys = IF @ = NoSys THEN req[i].sys ELSE @]
    /\ writeLog' = Append(writeLog, i)
    /\ Sse(i, Event("schema", NameOf(req[i]), Len(table[i].rows), <<>>), "embed")
    /\ UNCHANGED <<env, replanVars, fnVars, caught, req, broken, closeCalls,
                   table, chosen, rowIdx, count, upserts>>

\* this.setState({...this.state, lastSchema: {...}, lastSys: sys}), then the
\* schema event
Remember(i) ==
    /\ pc[i] = "remember"
    /\ state' = [state EXCEPT !.lastSchema = Snapshot(i), !.lastSys = req[i].sys]
    /\ writeLog' = Append(writeLog, i)
    /\ Sse(i, Event("schema", NameOf(req[i]), Len(table[i].rows), <<>>), "embed")
    /\ UNCHANGED <<env, replanVars, fnVars, caught, req, broken, closeCalls,
                   table, chosen, rowIdx, count, upserts>>

\* Embeddings without the warn event when the binding is missing
Embeddings_NoWarn(i) ==
    /\ pc[i] = "embed"
    /\ IF env.MEM /\ req[i].embed = TRUE
       THEN Sse(i, Log("Ranking rows for embedding", 0), "rank")
       ELSE Sse(i, Log("Planning charts & insights", 0), "plan")
    /\ UNCHANGED <<agentVars, replanVars, fnVars, caught, req, broken, closeCalls,
                   table, chosen, rowIdx, count, upserts>>

\* if (!this.env.MEM) warn; else if (doEmbed) 'Ranking rows' log; else straight
\* on to the 'Planning charts' log
Embeddings(i) ==
    /\ pc[i] = "embed"
    /\ IF ~env.MEM
       THEN Sse(i, Event("warn", "Vectorize MEM binding missing", 0, <<>>), "planLog")
       ELSE IF req[i].embed = TRUE
       THEN Sse(i, Log("Ranking rows for embedding", 0), "rank")
       ELSE Sse(i, Log("Planning charts & insights", 0), "plan")
    /\ UNCHANGED <<agentVars, replanVars, fnVars, caught, req, broken, closeCalls,
                   table, chosen, rowIdx, count, upserts>>

\* rankRowsForEmbedding returns (its catch block is empty: a call that threw
\* or an answer that is no JSON is caught there), then the 'Vectorizing n
\* rows' log event
Rank(i) ==
    /\ pc[i] = "rank"
    /\ \E resp \in RankResponses :
          LET rows == rankRowsForEmbedding(table[i].columns, table[i].rows, resp)
          IN /\ chosen' = [chosen EXCEPT ![i] = rows]
             /\ caught' = [caught EXCEPT ![i] =
                               IF resp.kind \in {"throw", "text"} THEN @ \cup {"rank"} ELSE @]
             /\ Sse(i, Log("Vectorizing", Len(rows)), "embedRows")
    /\ rowIdx' = [rowIdx EXCEPT ![i] = 0]
    /\ count' = [count EXCEPT ![i] = 0]
    /\ UNCHANGED <<agentVars, replanVars, fnVars, req, broken, closeCalls,
                   table, upserts>>

\* !vec || !Array.isArray(vec) || vec.length !== 768
InvalidVector(len) == len # EmbedDims

\* EmbedRow with count++ before the vector is validated
EmbedRow_CountSkipped(i) ==
    /\ pc[i] = "embedRows"
    /\ IF rowIdx[i] >= Len(chosen[i])
       THEN /\ Sse(i, Event("vectorized", "", count[i], <<>>), "planLog")
            /\ UNCHANGED <<rowIdx, count, caught>>
       ELSE LET row == chosen[i][rowIdx[i] + 1]
            IN IF ~row.defined /\ table[i].columns # <<>>
               THEN /\ Throw(i, "Cannot read properties of undefined")
                    /\ UNCHANGED <<rowIdx, count, caught>>
               ELSE \E len \in (IF table[i].columns = <<>> THEN {0} ELSE EmbedResults) :
                       /\ stream' = stream
                       /\ err' = err
                       /\ IF InvalidVector(len)
                          THEN /\ rowIdx' = [rowIdx EXCEPT ![i] = @ + 1]
                               /\ count' = [count EXCEPT ![i] = @ + 1]
                               /\ caught' = [caught EXCEPT ![i] = @ \cup {"embed"}]
                               /\ pc' = pc
                          ELSE /\ UNCHANGED <<rowIdx, count, caught>>
                               /\ pc' = [pc EXCEPT ![i] = "upsert"]
    /\ UNCHANGED <<agentVars, replanVars, fnVars, req, broken, closeCalls,
                   table, chosen, upserts>>

\* embedRows, one turn of the loop up to the upsert: the text of rows[i] (a
\* TypeError when rows[i] is undefined and there is a column to read), the
\* embedding (embedTextRobust catches a call that throws and returns no
\* vector), and `continue` on an invalid vector, reported by console.warn
\* only; after the last row
\* `return count` and the vectorized event
EmbedRow(i) ==
    /\ pc[i] = "embedRows"
    /\ IF rowIdx[i] >= Len(chosen[i])
       THEN /\ Sse(i, Event("vectorized", "", count[i], <<>>), "planLog")
            /\ UNCHANGED <<rowIdx, caught>>
       ELSE LET row == chosen[i][rowIdx[i] + 1]
            IN IF ~row.defined /\ table[i].columns # <<>>
               THEN /\ Throw(i, "Cannot read properties of undefined")
                    /\ UNCHANGED <<rowIdx, caught>>
               ELSE \E len \in (IF table[i].columns = <<>> THEN {0} ELSE EmbedResults) :
                       /\ stream' = stream
                       /\ err' = err
                       /\ IF InvalidVector(len)
                          THEN /\ rowIdx' = [rowIdx EXCEPT ![i] = @ + 1]
                               /\ caught' = [caught EXCEPT ![i] = @ \cup {"embed"}]
                               /\ pc' = pc
                          ELSE /\ UNCHANGED <<rowIdx, caught>>
                               /\ pc' = [pc EXCEPT ![i] = "upsert"]
    /\ UNCHANGED <<agentVars, replanVars, fnVars, req, broken, closeCalls,
                   table, chosen, count, upserts>>

\* await this.env.MEM.upsert([...]); count++
Upsert(i) ==
    /\ pc[i] = "upsert"
    /\ \E ok \in BOOLEAN :
          IF ok
          THEN /\ upserts' = [upserts EXCEPT ![i] = Append(@, rowIdx[i])]
               /\ count' = [count EXCEPT ![i] = @ + 1]
               /\ rowIdx' = [rowIdx EXCEPT ![i] = @ + 1]
               /\ pc' = [pc EXCEPT ![i] = "embedRows"]
               /\ UNCHANGED <<stream, err>>
          ELSE /\ Throw(i, "upsert failed")
               /\ UNCHANGED <<upserts, count, rowIdx>>
    /\ UNCHANGED <<agentVars, replanVars, fnVars, caught, req, broken, closeCalls,
                   table, chosen>>

\* the 'Planning charts & insights' log event after warn or vectorized
PlanLog(i) ==
    /\ pc[i] = "planLog"
    /\ Sse(i, Log("Planning charts & insights", 0), "plan")
    /\ UNCHANGED <<agentVars, replanVars, fnVars, caught, req, broken, closeCalls,
                   table, chosen, rowIdx, count, upserts>>

\* planCharts (this.env.AI.run is outside its try block; the catch block
\* around JSON.parse is empty), then the insights event
Plan(i) ==
    /\ pc[i] = "plan"
    /\ \E resp \in PlannerResponses :
          IF resp.kind = "throw"
          THEN /\ Throw(i, "AI.run failed")
               /\ caught' = caught
          ELSE /\ Sse(i, Event("insights", "", 0,
                               planCharts(table[i].columns,
                                          Slice(table[i].rows, SampleCap), resp)),
                      "table")
               /\ caught' = [caught EXCEPT ![i] =
                                 IF resp.kind = "text" THEN @ \cup {"plan"} ELSE @]
    /\ UNCHANGED <<agentVars, replanVars, fnVars, req, broken, closeCalls,
                   table, chosen, rowIdx, count, upserts>>

TableCap == 500

\* the table event
EmitTable(i) ==
    /\ pc[i] = "table"
    /\ Sse(i, Event("table", NameOf(req[i]), Len(Slice(table[i].rows, TableCap)), <<>>),
           "doneLog")
    /\ UNCHANGED <<agentVars, replanVars, fnVars, caught, req, broken, closeCalls,
                   table, chosen, rowIdx, count, upserts>>

\* the final log event
DoneLog(i) ==
    /\ pc[i] = "doneLog"
    /\ Sse(i, Log("Done.", 0), "finally")
    /\ UNCHANGED <<agentVars, replanVars, fnVars, caught, req, broken, closeCalls,
                   table, chosen, rowIdx, count, upserts>>

\* Catch with writer.close() after the error write instead of in finally:
\* skipped when the write rejects
Catch_CloseInline(i) ==
    /\ pc[i] = "catch"
    /\ stream' = [stream EXCEPT ![i] =
                     IF broken[i] THEN @ ELSE Append(@, Event("error", err[i], 0, <<>>))]
    /\ pc' = [pc EXCEPT ![i] = IF broken[i] THEN "done" ELSE "finally"]
    /\ UNCHANGED <<agentVars, replanVars, fnVars, caught, req, broken, closeCalls, err,
                   table, chosen, rowIdx, count, upserts>>

\* Catch around one stage only: after the error event the task goes on with
\* the table event
Catch_FallThrough(i) ==
    /\ pc[i] = "catch"
    /\ stream' = [stream EXCEPT ![i] =
                     IF broken[i] THEN @ ELSE Append(@, Event("error", err[i], 0, <<>>))]
    /\ pc' = [pc EXCEPT ![i] = IF broken[i] THEN "finally" ELSE "table"]
    /\ UNCHANGED <<agentVars, replanVars, fnVars, caught, req, broken, closeCalls, err,
                   table, chosen, rowIdx, count, upserts>>

\* catch (e) { await sse('error', ...) }: when this write rejects too, the
\* finally block still runs
Catch(i) ==
    /\ pc[i] = "catch"
    /\ stream' = [stream EXCEPT ![i] =
                     IF broken[i] THEN @ ELSE Append(@, Event("error", err[i], 0, <<>>))]
    /\ pc' = [pc EXCEPT ![i] = "finally"]
    /\ UNCHANGED <<agentVars, replanVars, fnVars, caught, req, broken, closeCalls, err,
                   table, chosen, rowIdx, count, upserts>>

\* finally { await writer.close() }
Finally(i) ==
    /\ pc[i] = "finally"
    /\ closeCalls' = [closeCalls EXCEPT ![i] = @ + 1]
    /\ pc' = [pc EXCEPT ![i] = "done"]
    /\ UNCHANGED <<agentVars, replanVars, fnVars, caught, req, stream, broken, err,
                   table, chosen, rowIdx, count, upserts>>

\* the consumer of the response cancels the readable side while the task runs:
\* every later writer.write rejects
ConsumerCancel(i) ==
    /\ pc[i] \notin {"off", "idle", "rejected", "done"}
    /\ ~broken[i]
    /\ broken' = [broken EXCEPT ![i] = TRUE]
    /\ UNCHANGED <<agentVars, replanVars, fnVars, caught, pc, req, stream, closeCalls, err,
                   table, chosen, rowIdx, count, upserts>>

(***************************************************************************)
(* onRequest, /replan_charts                                               *)
(***************************************************************************)
MaxReplans == 1

\* const mem = this.state.lastSchema; if (!mem) return 400; the planner is called
ReplanRequest ==
    /\ rpc = "idle"
    /\ rcount < MaxReplans
    /\ rcount' = rcount + 1
    /\ IF ~state.lastSchema.defined
       THEN /\ rresp' = 400
            /\ UNCHANGED <<rpc, rmem>>
       ELSE /\ rmem' = state.lastSchema
            /\ rpc' = "planning"
            /\ rresp' = 0
    /\ UNCHANGED <<agentVars, taskVars, fnVars>>

\* ReplanPlanned writing back the state it read before the planner was called
ReplanPlanned_StaleState ==
    /\ rpc = "planning"
    /\ \E resp \in PlannerResponses :
          IF resp.kind = "throw"
          THEN /\ rresp' = 500
               /\ state' = state
          ELSE /\ rresp' = 200
               /\ state' = [state EXCEPT !.lastSchema = rmem, !.lastSys = ReplanSys]
    /\ rpc' = "idle"
    /\ UNCHANGED <<env, writeLog, taskVars, fnVars, rmem, rcount>>

\* planCharts returns: this.setState({...this.state, lastSys: sys}); when it
\* throws the request fails and the state is not touched
ReplanPlanned ==
    /\ rpc = "planning"
    /\ \E resp \in PlannerResponses :
          IF resp.kind = "throw"
          THEN /\ rresp' = 500
               /\ state' = state
          ELSE /\ rresp' = 200
               /\ state' = [state EXCEPT !.lastSys = ReplanSys]
    /\ rpc' = "idle"
    /\ UNCHANGED <<env, writeLog, taskVars, fnVars, rmem, rcount>>

(***************************************************************************)
(* The agent with its ingestions                                           *)
(***************************************************************************)
NoTable == [columns |-> <<>>, rows |-> <<>>]

\* the tasks, the replan handler and the write log before the first request
IdleTasks ==
    /\ writeLog = <<>>
    /\ req = [i \in Ingestions |-> NoRequest]
    /\ stream = [i \in Ingestions |-> <<>>]
    /\ broken = [i \in Ingestions |-> FALSE]
    /\ closeCalls = [i \in Ingestions |-> 0]
    /\ err = [i \in Ingestions |-> ""]
    /\ table = [i \in Ingestions |-> NoTable]
    /\ chosen = [i \in Ingestions |-> <<>>]
    /\ rowIdx = [i \in Ingestions |-> 0]
    /\ count = [i \in Ingestions |-> 0]
    /\ upserts = [i \in Ingestions |-> <<>>]
    /\ caught = [i \in Ingestions |-> {}]
    /\ rpc = "idle"
    /\ rmem = NoSchema
    /\ rresp = 0
    /\ rcount = 0

\* everything but env and pc before the first request
IdleAgent ==
    /\ state = initialState
    /\ IdleTasks

IdleHarness ==
    /\ fnPc = "off"
    /\ fnIn = NoTable
    /\ fnOut = NoTable
    /\ fnOut2 = NoTable

Task(i) ==
    \/ Request(i) \/ LogStart(i) \/ Fetch(i) \/ Parse(i) \/ Clean(i) \/ Remember(i)
    \/ Embeddings(i) \/ Rank(i) \/ EmbedRow(i) \/ Upsert(i) \/ PlanLog(i) \/ Plan(i)
    \/ EmitTable(i) \/ DoneLog(i) \/ Catch(i) \/ Finally(i) \/ ConsumerCancel(i)

\* One /dataset_stream request (ingestion "A"; "B" never arrives) against an
\* agent with or without the Vectorize binding, /replan_charts requests at any
\* moment, and a consumer that may cancel the stream at any moment.
Init ==
    /\ env \in [MEM : BOOLEAN]
    /\ pc = [i \in Ingestions |-> IF i = "A" THEN "idle" ELSE "off"]
    /\ IdleAgent
    /\ IdleHarness

Next ==
    \/ \E i \in Ingestions : Task(i)
    \/ ReplanRequest
    \/ ReplanPlanned

Spec == Init /\ [][Next]_vars

\* Two /dataset_stream requests against the same agent, their tasks interleaved
\* at the awaits; the agent has no Vectorize binding (the embedding stage never
\* touches this.state), both consumers read their streams to the end and no
\* /replan_charts request arrives.
InitRace ==
    /\ env = [MEM |-> FALSE]
    /\ pc = [i \in Ingestions |-> "idle"]
    /\ IdleAgent
    /\ IdleHarness

RaceTask(i) ==
    \/ Request(i) \/ LogStart(i) \/ Fetch(i) \/ Parse(i) \/ Clean(i) \/ Remember(i)
    \/ Embeddings(i) \/ PlanLog(i) \/ Plan(i)
    \/ EmitTable(i) \/ DoneLog(i) \/ Catch(i) \/ Finally(i)

NextRace == \E i \in Ingestions : RaceTask(i)

SpecRace == InitRace /\ [][NextRace]_vars

(***************************************************************************)
(* Claims about the event stream of one ingestion (checked under Spec).    *)
(***************************************************************************)
Last(s) == s[Len(s)]

IsDoneLog(e) == e.ev = "log" /\ e.msg = "Done."

\* the names of the events of the stream that are no log events, in order
NonLogEvents(i) ==
    LET s == SelectSeq(stream[i], LAMBDA e : e.ev # "log")
    IN [j \in 1..Len(s) |-> s[j].ev]

Emitted(i, ev) == \E j \in 1..Len(stream[i]) : stream[i][j].ev = ev

\* the task has ended and its last event is the log "Done."
Succeeded(i) ==
    /\ pc[i] = "done"
    /\ stream[i] # <<>>
    /\ IsDoneLog(Last(stream[i]))

\* the task has ended and its last event is an error event
EndedWithError(i) ==
    /\ pc[i] = "done"
    /\ stream[i] # <<>>
    /\ Last(stream[i]).ev = "error"

\* C1 as stated: a successful ingestion with embedding requested emits log*,
\* schema, (warn|vectorized), insights, table, log "Done." and no other event,
\* log included, between schema and the final log.
C1_ExactOrderNoLogBetween ==
    \A i \in Ingestions :
        (Succeeded(i) /\ req[i].embed) =>
            \E p \in 1..Len(stream[i]) :
                /\ Len(stream[i]) = p + 4
                /\ \A j \in 1..(p - 1) :
                       stream[i][j].ev = "log" /\ ~IsDoneLog(stream[i][j])
                /\ stream[i][p].ev = "schema"
                /\ stream[i][p + 1].ev \in {"warn", "vectorized"}
                /\ stream[i][p + 2].ev = "insights"
                /\ stream[i][p + 3].ev = "table"
                /\ IsDoneLog(stream[i][p + 4])

\* C1 amended: leaving log events aside, a successful ingestion with embedding
\* requested emits exactly schema, then one of warn or vectorized, then
\* insights, then table; its last event is the log "Done.", which occurs once;
\* progress log events occur before schema and between schema and the end.
C1_OrderOfStageEvents ==
    \A i \in Ingestions :
        (Succeeded(i) /\ req[i].embed) =>
            /\ \/ NonLogEvents(i) = <<"schema", "warn", "insights", "table">>
               \/ NonLogEvents(i) = <<"schema", "vectorized", "insights", "table">>
            /\ \A j \in 1..Len(stream[i]) :
                   IsDoneLog(stream[i][j]) => j = Len(stream[i])

\* a successful ingestion that embedded a row and logged between schema and
\* the vectorized event
C1_Witness ==
    \E i \in Ingestions :
        /\ Succeeded(i)
        /\ req[i].embed
        /\ \E j \in 2..Len(stream[i]) :
               /\ stream[i][j].ev = "vectorized"
               /\ stream[i][j].n >= 1
               /\ stream[i][j - 1].ev = "log"

\* C2: for every stream datasetStream opens, writer.close() is called exactly
\* once on every exit path of the task (normal completion, an exception of any
\* stage, an exception while emitting an event), and no event is written
\* after it.
C2_ClosedOnceAfterLastEvent ==
    /\ [](\A i \in Ingestions :
              closeCalls[i] = IF pc[i] = "done" THEN 1 ELSE 0)
    /\ [][\A i \in Ingestions :
              closeCalls[i] >= 1 => stream'[i] = stream[i]]_vars

\* the task ended through an exception thrown while emitting an event, after
\* the schema event, and the error event could not be written either
C2_Witness ==
    \E i \in Ingestions :
        /\ pc[i] = "done"
        /\ closeCalls[i] = 1
        /\ err[i] = "write failed"
        /\ Emitted(i, "schema")
        /\ ~Emitted(i, "error")

FetchParseErrors ==
    {"Fetch failed", "network error", "Unexpected token", "Invalid JSON in pasted text."}
EmbedErrors == {"Cannot read properties of undefined", "upsert failed"}
PlanErrors == {"AI.run failed"}

\* the stage events of the stage that threw and of the later stages
EventsFromFailedStage(msg) ==
    IF msg \in FetchParseErrors
    THEN {"schema", "warn", "vectorized", "insights", "table"}
    ELSE IF msg \in EmbedErrors
    THEN {"warn", "vectorized", "insights", "table"}
    ELSE {"insights", "table"}

C4_OnlyFetchOrParseAborts ==
    \A i \in Ingestions :
        EndedWithError(i) => err[i] \in FetchParseErrors

\* C5: an ingestion whose stream ends with an error event leaves lastSchema
\* equal to the value it had before the ingestion started (here: absent).
C5_ErrorLeavesSnapshot ==
    \A i \in Ingestions :
        EndedWithError(i) => state.lastSchema = NoSchema

\* C7: in every ingestion that reaches the schema event (and whose consumer is
\* still reading): vectorized is emitted iff embedding was requested and MEM is
\* configured, warn iff MEM is not configured, never both, and the ingestion
\* goes on to insights and table.
C7_WarnOrVectorizedThenInsights ==
    \A i \in Ingestions :
        (pc[i] = "done" /\ ~broken[i] /\ Emitted(i, "schema")) =>
            /\ Emitted(i, "vectorized") <=> (req[i].embed /\ env.MEM)
            /\ Emitted(i, "warn") <=> ~env.MEM
            /\ ~(Emitted(i, "vectorized") /\ Emitted(i, "warn"))
            /\ Emitted(i, "insights")
            /\ Emitted(i, "table")

\* C8: in embedRows a row whose embedding fails or has a length other than 768
\* is skipped, the rows after it are still processed, in order, and the count
\* of the vectorized event is the number of upserts performed.
C8_CountIsUpserts ==
    \A i \in Ingestions :
        /\ \A j \in 1..Len(upserts[i]) :
               /\ upserts[i][j] < Len(chosen[i])
               /\ j > 1 => upserts[i][j - 1] < upserts[i][j]
        /\ \A j \in 1..Len(stream[i]) :
               stream[i][j].ev = "vectorized" =>
                   /\ stream[i][j].n = Len(upserts[i])
                   /\ rowIdx[i] = Len(chosen[i])

\* the first of two rows was skipped, the second upserted, and the vectorized
\* event was emitted
C8_Witness ==
    \E i \in Ingestions :
        /\ Emitted(i, "vectorized")
        /\ Len(chosen[i]) = 2
        /\ upserts[i] = <<1>>

(***************************************************************************)
(* Claim about two concurrent ingestions (checked under SpecRace).         *)
(***************************************************************************)
\* C6: when two ingestions interleave at their awaits, after both have ended
\* the retained snapshot is wholly that of the ingestion that called setState
\* last: name, url, columns, sample and lastSys all come from it.
C6_LastWriterWins ==
    (/\ \A i \in Ingestions : pc[i] \in {"done", "rejected"}
     /\ writeLog # <<>>) =>
        LET w == Last(writeLog)
        IN /\ state.lastSchema.defined
           /\ state.lastSchema.name = NameOf(req[w])
           /\ state.lastSchema.url = SourceOf(req[w])
           /\ state.lastSchema.columns = table[w].columns
           /\ state.lastSchema.sample = Slice(table[w].rows, SampleCap)
           /\ state.lastSys = req[w].sys

\* both ingestions stored a snapshot, with different columns, and both ended
C6_Witness ==
    /\ \A i \in Ingestions : pc[i] = "done"
    /\ Len(writeLog) = 2
    /\ table["A"].columns # table["B"].columns
    /\ Succeeded(Last(writeLog))

(***************************************************************************)
(* The Row Cleaner as a pure function: inputs drawn from bounded sets.     *)
(***************************************************************************)
MaxCleanRows == 2
MaxCleanCols == 2

ColNames == {"a", "b"}

\* cells of the inputs: empty, blank, padded text, numeric text, number, null
CleanCells == {Str(<<>>), Str(<<" ", "x">>), Str(<<"1">>), Num(1, 0), Null}

SeqsUpTo(S, n) == UNION {[1..k -> S] : k \in 0..n}

\* objects whose keys are some of the column names
CleanObjs == UNION {[D -> CleanCells] : D \in SUBSET ColNames}

InitClean ==
    /\ fnPc = "in"
    /\ fnIn \in [columns : SeqsUpTo(ColNames, MaxCleanCols),
                 rows : SeqsUpTo(CleanObjs, MaxCleanRows)]
    /\ fnOut = NoTable
    /\ fnOut2 = NoTable
    /\ env = [MEM |-> FALSE]
    /\ pc = [i \in Ingestions |-> "off"]
    /\ IdleAgent

CleanOnce ==
    /\ fnPc = "in"
    /\ fnOut' = cleanRows(fnIn.columns, fnIn.rows)
    /\ fnPc' = "cleaned"
    /\ UNCHANGED <<agentVars, taskVars, replanVars, fnIn, fnOut2>>

CleanTwice ==
    /\ fnPc = "cleaned"
    /\ fnOut2' = cleanRows(fnOut.columns, fnOut.rows)
    /\ fnPc' = "recleaned"
    /\ UNCHANGED <<agentVars, taskVars, replanVars, fnIn, fnOut>>

NextClean == CleanOnce \/ CleanTwice

SpecClean == InitClean /\ [][NextClean]_vars

(***************************************************************************)
(* Claims about the Row Cleaner (checked under SpecClean).                 *)
(***************************************************************************)
\* s is a subsequence of t: the elements of s occur in t in the same order
RECURSIVE IsSubseq(_, _)
IsSubseq(s, t) ==
    IF s = <<>> THEN TRUE
    ELSE IF t = <<>> THEN FALSE
    ELSE IF Head(s) = Head(t) THEN IsSubseq(Tail(s), Tail(t))
    ELSE IsSubseq(s, Tail(t))

\* C9: for every input, the columns cleanRows returns are a subsequence of the
\* input columns in the original order, and every returned row has exactly the
\* returned column names as its keys.
C9_ColumnsSubseqRowsExactKeys ==
    fnPc = "cleaned" =>
        /\ IsSubseq(fnOut.columns, fnIn.columns)
        /\ \A i \in 1..Len(fnOut.rows) :
               DOMAIN fnOut.rows[i] = Range(fnOut.columns)

\* a column was pruned and rows survive, one of them built from an object
\* that lacked a key and had a key outside the columns
C9_Witness ==
    /\ fnPc = "cleaned"
    /\ Len(fnOut.columns) < Len(fnIn.columns)
    /\ Len(fnOut.rows) = 2
    /\ \E i \in 1..Len(fnIn.rows) :
           DOMAIN fnIn.rows[i] # Range(fnIn.columns)

\* C10: cleanRows applied to the output of cleanRows returns the same columns
\* and the same rows in the same order.
C10_Idempotent ==
    fnPc = "recleaned" => fnOut2 = fnOut

(***************************************************************************)
(* The Format Router of datasetStream as a pure function of the            *)
(* content-type header and the dataset URL.                                *)
(***************************************************************************)
\* the agent is not serving anything
AgentOff ==
    /\ env = [MEM |-> FALSE]
    /\ pc = [i \in Ingestions |-> "off"]
    /\ IdleAgent

\* String.prototype.toLowerCase, for the upper-case letters of the inputs
ToLowerChar(ch) ==
    CASE ch = "T" -> "t" [] ch = "C" -> "c" [] ch = "S" -> "s" [] ch = "V" -> "v"
      [] OTHER -> ch

ToLowerCase(s) == [k \in 1..Len(s) |-> ToLowerChar(s[k])]

\* a pattern without metacharacters tested against s: sub occurs in s
Contains(s, sub) ==
    \E k \in 0..(Len(s) - Len(sub)) : SubSeq(s, k + 1, k + Len(sub)) = sub

\* String.prototype.endsWith
EndsWith(s, suf) ==
    /\ Len(s) >= Len(suf)
    /\ SubSeq(s, Len(s) - Len(suf) + 1, Len(s)) = suf

\* the words of the matchers and the suffixes of the router
Pattern ==
    [textCsv |-> <<"t", "e", "x", "t", "/", "c", "s", "v">>,
     applicationCsv |-> <<"a", "p", "p", "l", "i", "c", "a", "t", "i", "o", "n", "/", "c", "s", "v">>,
     ndjson |-> <<"n", "d", "j", "s", "o", "n">>,
     jsonl |-> <<"j", "s", "o", "n", "l">>,
     xml |-> <<"x", "m", "l">>,
     rss |-> <<"r", "s", "s">>,
     atom |-> <<"a", "t", "o", "m">>,
     json |-> <<"j", "s", "o", "n">>]

Suffix ==
    [csv |-> <<".", "c", "s", "v">>,
     ndjson |-> <<".", "n", "d", "j", "s", "o", "n">>,
     jsonl |-> <<".", "j", "s", "o", "n", "l">>,
     json |-> <<".", "j", "s", "o", "n">>,
     xml |-> <<".", "x", "m", "l">>,
     rss |-> <<".", "r", "s", "s">>]

isCSV(ct) == Contains(ct, Pattern.textCsv) \/ Contains(ct, Pattern.applicationCsv)
isNDJSON(ct) == Contains(ct, Pattern.ndjson) \/ Contains(ct, Pattern.jsonl)
isXML(ct) == Contains(ct, Pattern.xml) \/ Contains(ct, Pattern.rss) \/ Contains(ct, Pattern.atom)
isJSON(ct) == Contains(ct, Pattern.json)

\* the if / else-if chain of datasetStream over ct (already lower-cased) and
\* datasetUrl: the branch taken
Route(ct, datasetUrl) ==
    IF isCSV(ct) \/ EndsWith(datasetUrl, Suffix.csv) THEN "CSV"
    ELSE IF isNDJSON(ct) \/ EndsWith(datasetUrl, Suffix.ndjson) \/ EndsWith(datasetUrl, Suffix.jsonl)
    THEN "NDJSON"
    ELSE IF isJSON(ct) \/ EndsWith(datasetUrl, Suffix.json) THEN "JSON"
    ELSE IF isXML(ct) \/ EndsWith(datasetUrl, Suffix.xml) \/ EndsWith(datasetUrl, Suffix.rss)
    THEN "XML"
    ELSE "HTML"

\* content-type headers of the response ('' when the header is missing)
ContentTypes ==
    {<<>>,
     <<"t", "e", "x", "t", "/", "c", "s", "v">>,
     <<"T", "e", "x", "t", "/", "C", "S", "V">>,
     <<"a", "p", "p", "l", "i", "c", "a", "t", "i", "o", "n", "/", "j", "s", "o", "n">>,
     <<"a", "p", "p", "l", "i", "c", "a", "t", "i", "o", "n", "/", "x", "-", "n", "d", "j", "s", "o", "n">>,
     <<"a", "p", "p", "l", "i", "c", "a", "t", "i", "o", "n", "/", "r", "s", "s", "+", "x", "m", "l">>,
     <<"t", "e", "x", "t", "/", "h", "t", "m", "l">>,
     <<"a", "p", "p", "l", "i", "c", "a", "t", "i", "o", "n", "/", "o", "c", "t", "e", "t", "-", "s", "t", "r", "e", "a", "m">>}

\* dataset URLs: no suffix, each suffix the router knows, a suffix followed by a query
DatasetUrls ==
    {<<"h", "t", "t", "p", "s", ":", "/", "/", "h", "/", "d">>,
     <<"h", "t", "t", "p", "s", ":", "/", "/", "h", "/", "d", ".", "c", "s", "v">>,
     <<"h", "t", "t", "p", "s", ":", "/", "/", "h", "/", "d", ".", "j", "s", "o", "n">>,
     <<"h", "t", "t", "p", "s", ":", "/", "/", "h", "/", "d", ".", "n", "d", "j", "s", "o", "n">>,
     <<"h", "t", "t", "p", "s", ":", "/", "/", "h", "/", "d", ".", "j", "s", "o", "n", "l">>,
     <<"h", "t", "t", "p", "s", ":", "/", "/", "h", "/", "d", ".", "x", "m", "l">>,
     <<"h", "t", "t", "p", "s", ":", "/", "/", "h", "/", "d", ".", "r", "s", "s">>,
     <<"h", "t", "t", "p", "s", ":", "/", "/", "h", "/", "d", ".", "c", "s", "v", "?", "v", "=", "1">>}

InitRoute ==
    /\ fnPc = "in"
    /\ fnIn \in [ct : ContentTypes, url : DatasetUrls]
    /\ fnOut = NoTable
    /\ fnOut2 = NoTable
    /\ AgentOff

\* const ct = (resp.headers.get('content-type') || '').toLowerCase(), then the
\* branch is chosen
RouteOnce ==
    /\ fnPc = "in"
    /\ fnOut' = Route(ToLowerCase(fnIn.ct), fnIn.url)
    /\ fnPc' = "routed"
    /\ UNCHANGED <<agentVars, taskVars, replanVars, fnIn, fnOut2>>

NextRoute == RouteOnce

SpecRoute == InitRoute /\ [][NextRoute]_vars

\* the strategy whose matcher the content-type matches, "none" when it matches
\* no matcher
StrategyOfContentType(ct) ==
    IF isCSV(ct) THEN "CSV"
    ELSE IF isNDJSON(ct) THEN "NDJSON"
    ELSE IF isXML(ct) THEN "XML"
    ELSE IF isJSON(ct) THEN "JSON"
    ELSE "none"

\* the strategy of the URL suffix, "none" when the URL has no known suffix
StrategyOfSuffix(u) ==
    IF EndsWith(u, Suffix.csv) THEN "CSV"
    ELSE IF EndsWith(u, Suffix.ndjson) \/ EndsWith(u, Suffix.jsonl) THEN "NDJSON"
    ELSE IF EndsWith(u, Suffix.xml) \/ EndsWith(u, Suffix.rss) THEN "XML"
    ELSE IF EndsWith(u, Suffix.json) THEN "JSON"
    ELSE "none"

\* C11: for a URL ingestion the strategy is chosen by strict priority: the
\* strategy of the content-type when it matches a matcher, whatever the URL
\* suffix; the strategy of the URL suffix only when the content-type matches
\* none; the HTML fallback when neither matches.
C11_ContentTypeBeforeSuffix ==
    fnPc = "routed" =>
        LET ct == ToLowerCase(fnIn.ct)
        IN fnOut = IF StrategyOfContentType(ct) # "none" THEN StrategyOfContentType(ct)
                   ELSE IF StrategyOfSuffix(fnIn.url) # "none" THEN StrategyOfSuffix(fnIn.url)
                   ELSE "HTML"

(***************************************************************************)
(* The Arbitrary-JSON Normalizer as a pure function of the parsed body.    *)
(***************************************************************************)
DiscoverCap == 400
RowCap == 20000

\* for (const k of Object.keys(o)) set.add(k)
RECURSIVE AddKeys(_, _)
AddKeys(cols, keys) ==
    IF keys = <<>> THEN cols
    ELSE AddKeys(IF Head(keys) \in Range(cols) THEN cols ELSE Append(cols, Head(keys)),
                 Tail(keys))

\* the keys added by the iterations lo..hi of the loop, in the order the set
\* receives them: those of the first half, then the new ones of the second
RECURSIVE DiscoverLoop(_, _, _)
DiscoverLoop(objs, lo, hi) ==
    IF lo > hi THEN <<>>
    ELSE IF lo = hi
    THEN IF objs[lo].t = "obj" THEN AddKeys(<<>>, objs[lo].keys) ELSE <<>>
    ELSE LET mid == (lo + hi) \div 2
         IN AddKeys(DiscoverLoop(objs, lo, mid), DiscoverLoop(objs, mid + 1, hi))

\* the discovery without the slice to the first 400 items
discoverColumnsFromObjects_NoCap(objs) ==
    LET cols == DiscoverLoop(objs, 1, Len(objs))
    IN IF Len(cols) > 0 THEN cols ELSE <<"value">>

discoverColumnsFromObjects(objs) ==
    LET cols == DiscoverLoop(objs, 1, Min(DiscoverCap, Len(objs)))
    IN IF Len(cols) > 0 THEN cols ELSE <<"value">>

\* obj?.[c] for a column name c: undefined unless obj is an object with the key
PropOf(obj, c) == IF obj.t = "obj" THEN Get(obj.get, c) ELSE Undef

\* out[c] = obj?.[c] ?? ''
pick(cols, obj) ==
    [c \in Range(cols) |->
        IF PropOf(obj, c).t \in {"null", "undef"} THEN Str(<<>>) ELSE PropOf(obj, c)]

\* Object.values(o)
ObjectValues(o) == [k \in 1..Len(o.keys) |-> o.get[o.keys[k]]]

\* columns discovered from arr, every element (up to RowCap) projected on them
RecordList(arr) ==
    LET columns == discoverColumnsFromObjects(arr)
        kept == Slice(arr, RowCap)
    IN [columns |-> columns, rows |-> [k \in 1..Len(kept) |-> pick(columns, kept[k])]]

\* Object.keys(obj).find(pred): the first key whose value has type ty,
\* undefined when there is none
FindKey(obj, ty) ==
    LET ks == SelectSeq(obj.keys, LAMBDA k : obj.get[k].t = ty)
    IN IF ks = <<>> THEN [found |-> FALSE, key |-> ""] ELSE [found |-> TRUE, key |-> ks[1]]

\* if (arrKey), if (objKey): a key is truthy when it was found and is not ''
Truthy(fk) == fk.found /\ fk.key # ""

parseArbitraryJSON(body) ==
    IF body.t = "arr" THEN RecordList(body.items)
    ELSE IF body.t = "obj"
    THEN LET arrKey == FindKey(body, "arr")
             objKey == FindKey(body, "obj")
         IN IF Truthy(arrKey) THEN RecordList(body.get[arrKey.key].items)
            ELSE IF Truthy(objKey) THEN RecordList(ObjectValues(body.get[objKey.key]))
            ELSE [columns |-> body.keys, rows |-> <<body.get>>]
    ELSE [columns |-> <<"value">>, rows |-> <<[value |-> Str(String(body))]>>]

MaxJsonItems == 2

\* records {x:1} and {y:"v", x:1}
RecX == JObj(<<"x">>, [x |-> Num(1, 0)])
RecYX == JObj(<<"y", "x">>, [y |-> Str(<<"v">>), x |-> Num(1, 0)])

\* the record {x:" 2", ok:true}
RecFlag == JObj(<<"x", "ok">>, [x |-> Str(<<" ", "2">>), ok |-> Bool(TRUE)])

\* elements of the arrays: records, a number, null, a nested array
JsonItems == {RecX, RecYX, RecFlag, Num(1, 0), Null, JArr(<<RecX>>)}

JsonArrays == {JArr(s) : s \in SeqsUpTo(JsonItems, MaxJsonItems)}

\* a map keyed by id, the empty object
JsonMaps == {JObj(<<"k1", "k2">>, [k1 |-> RecX, k2 |-> RecYX]), JObj(<<>>, <<>>)}

\* names of the fields of a top-level object: a primitive field, two array
\* fields, a map field, and a field whose name is the empty string
FieldNames == {"n", "data", "more", "meta", ""}

\* the orders in which fields occur in a top-level object
FieldOrders ==
    {ks \in SeqsUpTo(FieldNames, Cardinality(FieldNames)) :
        \A p, q \in 1..Len(ks) : p # q => ks[p] # ks[q]}

JsonObjects ==
    {JObj(ks, [k \in Range(ks) |->
                  CASE k = "n" -> Num(1, 0)
                    [] k = "data" -> d
                    [] k = "more" -> JArr(<<RecYX>>)
                    [] k = "meta" -> m
                    [] k = "" -> e]) :
        ks \in FieldOrders, d \in JsonArrays, m \in JsonMaps,
        e \in {JArr(<<RecX>>), JObj(<<"k1">>, [k1 |-> RecX])}}

JsonPrimitives == {Str(<<"h", "i">>), Num(0 - 15, 1), Null, Bool(TRUE)}

JsonBodies == JsonArrays \cup JsonObjects \cup JsonPrimitives

InitJSON ==
    /\ fnPc = "in"
    /\ fnIn \in JsonBodies
    /\ fnOut = NoTable
    /\ fnOut2 = NoTable
    /\ AgentOff

ParseOnce ==
    /\ fnPc = "in"
    /\ fnOut' = parseArbitraryJSON(fnIn)
    /\ fnPc' = "parsed"
    /\ UNCHANGED <<agentVars, taskVars, replanVars, fnIn, fnOut2>>

\* datasetStream after the parse: this.cleanRows(columns, rows)
CleanParsed ==
    /\ fnPc = "parsed"
    /\ fnOut2' = cleanRows(fnOut.columns, fnOut.rows)
    /\ fnPc' = "cleaned"
    /\ UNCHANGED <<agentVars, taskVars, replanVars, fnIn, fnOut>>

NextJSON == ParseOnce \/ CleanParsed

SpecJSON == InitJSON /\ [][NextJSON]_vars

\* the fields of a top-level object whose value is an array, in order
ArrayFields(b) == SelectSeq(b.keys, LAMBDA k : b.get[k].t = "arr")

\* the fields whose value is a non-array object, in order
ObjectFields(b) == SelectSeq(b.keys, LAMBDA k : b.get[k].t = "obj")

\* C12: parseArbitraryJSON resolves the shape in a fixed order: a top-level
\* array gives one row per element projected onto the discovered columns;
\* otherwise an object with an array-valued field uses only the first such
\* array; otherwise an object with an object-valued field uses the values of
\* the first such object as the record list; otherwise an object gives a single
\* row with its own keys as columns; otherwise a primitive gives the single
\* row {value: String(input)} with column value.
C12_ShapeResolutionOrder ==
    fnPc \in {"parsed", "cleaned"} =>
        fnOut = IF fnIn.t = "arr" THEN RecordList(fnIn.items)
                ELSE IF fnIn.t = "obj" /\ ArrayFields(fnIn) # <<>>
                THEN RecordList(fnIn.get[ArrayFields(fnIn)[1]].items)
                ELSE IF fnIn.t = "obj" /\ ObjectFields(fnIn) # <<>>
                THEN RecordList(ObjectValues(fnIn.get[ObjectFields(fnIn)[1]]))
                ELSE IF fnIn.t = "obj"
                THEN [columns |-> fnIn.keys, rows |-> <<fnIn.get>>]
                ELSE [columns |-> <<"value">>, rows |-> <<[value |-> Str(String(fnIn))]>>]

(***************************************************************************)
(* CSV export and the CSV tokenizer as pure functions; here column names   *)
(* and texts are sequences of characters.                                  *)
(***************************************************************************)
\* String.prototype.split on a one-character separator
RECURSIVE SplitFrom(_, _, _, _)
SplitFrom(text, sep, cur, out) ==
    IF text = <<>> THEN Append(out, cur)
    ELSE IF Head(text) = sep THEN SplitFrom(Tail(text), sep, <<>>, Append(out, cur))
    ELSE SplitFrom(Tail(text), sep, Append(cur, Head(text)), out)

\* parseLine of parseCSV, from index i (1-based) on
RECURSIVE parseLineFrom(_, _, _, _, _)
parseLineFrom(line, i, cur, inQ, out) ==
    IF i > Len(line) THEN Append(out, cur)
    ELSE LET ch == line[i]
         IN IF inQ
            THEN IF ch = "\"" /\ i + 1 <= Len(line) /\ line[i + 1] = "\""
                 THEN parseLineFrom(line, i + 2, Append(cur, "\""), TRUE, out)
                 ELSE IF ch = "\"" THEN parseLineFrom(line, i + 1, cur, FALSE, out)
                 ELSE parseLineFrom(line, i + 1, Append(cur, ch), TRUE, out)
            ELSE IF ch = "," THEN parseLineFrom(line, i + 1, <<>>, FALSE, Append(out, cur))
                 ELSE IF ch = "\"" THEN parseLineFrom(line, i + 1, cur, TRUE, out)
                 ELSE parseLineFrom(line, i + 1, Append(cur, ch), FALSE, out)

parseLine(line) == parseLineFrom(line, 1, <<>>, FALSE, <<>>)

\* header[i] || `col${i}` (i counted from 1 here)
KeyAt(header, i) ==
    IF header[i] # <<>> THEN header[i] ELSE <<"c", "o", "l">> \o IntToDigits(i - 1, 1)

\* obj[header[i] || `col${i}`] = vals[i] ?? '' for every i, in order: a later
\* cell of the same name overwrites an earlier one
RowOfLine(header, vals) ==
    [c \in {KeyAt(header, i) : i \in 1..Len(header)} |->
        LET i == CHOOSE j \in 1..Len(header) :
                     /\ KeyAt(header, j) = c
                     /\ \A k \in (j + 1)..Len(header) : KeyAt(header, k) # c
        IN Str(IF i <= Len(vals) THEN vals[i] ELSE <<>>)]

parseCSV(text) ==
    LET lines == SelectSeq(SplitFrom(SelectSeq(text, LAMBDA ch : ch # "\r"), "\n", <<>>, <<>>),
                           LAMBDA l : Len(l) > 0)
    IN IF lines = <<>> THEN [columns |-> <<>>, rows |-> <<>>]
       ELSE LET cells == parseLine(lines[1])
                header == [i \in 1..Len(cells) |-> Trim(cells[i])]
                data == SubSeq(lines, 2, Min(Len(lines), RowCap + 1))
            IN [columns |-> header,
                rows |-> [j \in 1..Len(data) |-> RowOfLine(header, parseLine(data[j]))]]

\* s.replace(/"/g, '""')
RECURSIVE DoubleQuotes(_)
DoubleQuotes(s) ==
    IF s = <<>> THEN <<>>
    ELSE (IF Head(s) = "\"" THEN <<"\"", "\"">> ELSE <<Head(s)>>) \o DoubleQuotes(Tail(s))

\* csvCell that wraps the cell without doubling its quotes
csvCell_NoDoubling(v) ==
    IF v.t \in {"null", "undef"} THEN <<>>
    ELSE LET s == String(v)
         IN IF \E k \in 1..Len(s) : s[k] \in {"\"", ",", "\n"}
            THEN <<"\"">> \o s \o <<"\"">> ELSE s

csvCell(v) ==
    IF v.t \in {"null", "undef"} THEN <<>>
    ELSE LET s == DoubleQuotes(String(v))
         IN IF \E k \in 1..Len(s) : s[k] \in {"\"", ",", "\n"}
            THEN <<"\"">> \o s \o <<"\"">> ELSE s

toCSV(columns, rows) ==
    LET header == Join(columns, <<",">>)
        line(r) == Join([k \in 1..Len(columns) |-> csvCell(Get(r, columns[k]))], <<",">>)
        body == Join([j \in 1..Len(rows) |-> line(rows[j])], <<"\n">>)
    IN header \o <<"\n">> \o body

MaxCsvRows == 2

\* column lists: none, one column, two columns
CsvColumns == {<<>>, << <<"a">> >>, << <<"a">>, <<"b">> >>}

\* cells: empty, plain, with a comma and a quote, with a newline, a number,
\* null, undefined
CsvCells ==
    {Str(<<>>), Str(<<"x">>), Str(<<"x", ",", "\"">>), Str(<<"x", "\n", "y">>),
     Num(0 - 15, 1), Null, Undef}

InitCSV ==
    /\ fnPc = "in"
    /\ \E cols \in CsvColumns :
          fnIn \in [columns : {cols}, rows : SeqsUpTo([Range(cols) -> CsvCells], MaxCsvRows)]
    /\ fnOut = NoTable
    /\ fnOut2 = NoTable
    /\ AgentOff

WriteCsv ==
    /\ fnPc = "in"
    /\ fnOut' = toCSV(fnIn.columns, fnIn.rows)
    /\ fnPc' = "written"
    /\ UNCHANGED <<agentVars, taskVars, replanVars, fnIn, fnOut2>>

ReadCsv ==
    /\ fnPc = "written"
    /\ fnOut2' = parseCSV(fnOut)
    /\ fnPc' = "read"
    /\ UNCHANGED <<agentVars, taskVars, replanVars, fnIn, fnOut>>

NextCSV == WriteCsv \/ ReadCsv

SpecCSV == InitCSV /\ [][NextCSV]_vars

\* the original value rendered as a string, null and undefined as ''
Rendered(v) == Str(IF v.t \in {"null", "undef"} THEN <<>> ELSE String(v))

\* C13: toCSV followed by parseCSV reproduces the original columns and rows:
\* the same number of rows in the same order, every cell equal to the original
\* value rendered as a string; also when cells with commas, quotes or newlines
\* were escaped.
C13_RoundTrip ==
    fnPc = "read" =>
        /\ fnOut2.columns = fnIn.columns
        /\ Len(fnOut2.rows) = Len(fnIn.rows)
        /\ \A j \in 1..Len(fnIn.rows) :
               fnOut2.rows[j] = [c \in Range(fnIn.columns) |-> Rendered(fnIn.rows[j][c])]

\* the string form of v contains a comma, a double quote or a newline
NeedsQuoting(v) == \E k \in 1..Len(String(v)) : String(v)[k] \in {",", "\"", "\n"}

\* the characters of the text, every double quote written twice
Doubled(s) == [k \in 1..(Len(s) + Cardinality({q \in 1..Len(s) : s[q] = "\""})) |->
                  LET src == CHOOSE p \in 1..Len(s) :
                                 LET at == p + Cardinality({q \in 1..(p - 1) : s[q] = "\""})
                                 IN k = at \/ (s[p] = "\"" /\ k = at + 1)
                  IN s[src]]

CellText(v) ==
    IF v.t \in {"null", "undef"} THEN <<>>
    ELSE IF NeedsQuoting(v) THEN <<"\"">> \o Doubled(String(v)) \o <<"\"">>
    ELSE String(v)

\* C14: toCSV writes the header row first, then one line per row with the
\* cells in column order joined by commas (lines separated by newlines); a cell
\* is wrapped in double quotes with every internal double quote doubled iff
\* its string form contains a comma, a double quote or a newline; null and
\* undefined render as the empty string.
C14_HeaderThenQuotedCells ==
    fnPc \in {"written", "read"} =>
        LET cols == fnIn.columns
            lines == SplitFrom(fnOut, "\n", <<>>, <<>>)
            text(j) == Join([k \in 1..Len(cols) |-> CellText(fnIn.rows[j][cols[k]])], <<",">>)
        IN /\ lines[1] = Join(cols, <<",">>)
           /\ fnOut = lines[1] \o <<"\n">>
                      \o Join([j \in 1..Len(fnIn.rows) |-> text(j)], <<"\n">>)

\* a table was written whose row holds a cell with a comma and a quote next to
\* a null cell
C14_Witness ==
    /\ fnPc = "written"
    /\ \E j \in 1..Len(fnIn.rows) :
          /\ DOMAIN fnIn.rows[j] = {<<"a">>, <<"b">>}
          /\ fnIn.rows[j][<<"a">>] = Str(<<"x", ",", "\"">>)
          /\ fnIn.rows[j][<<"b">>] = Null
    /\ fnOut = <<"a", ",", "b", "\n", "\"", "x", ",", "\"", "\"", "\"", ",">>

(***************************************************************************)
(* planCharts as a pure function of the columns, the sample and the        *)
(* planner's answer.                                                       *)
(***************************************************************************)
MaxNumericRows == 8
MaxTextRows == 4
MaxEmptyRows == 1

\* answers of the planner that do not throw
PlanAnswers ==
    {[kind |-> "missing", arr |-> <<>>],
     [kind |-> "empty", arr |-> <<>>],
     [kind |-> "text", arr |-> <<>>],
     [kind |-> "object", arr |-> <<>>],
     [kind |-> "array", arr |-> <<>>],
     [kind |-> "array", arr |-> <<ChartSpec("t1", "pie", "category", "", "count"),
                                  ChartSpec("t2", "", "category", "", "")>>]}

\* a sample over [category, amount]: n rows with a numeric amount (numbers
\* and numeric strings in turn), then t rows with a text, then e rows without
AmountRows(n, t, e) ==
    [j \in 1..(n + t + e) |->
        [category |-> Str(<<"k">>),
         amount |-> IF j <= n THEN (IF j % 2 = 1 THEN Num(5, 0) ELSE Str(<<"7">>))
                    ELSE IF j <= n + t THEN Str(<<"a", "b", "c">>)
                    ELSE Str(<<>>)]]

InitPlan ==
    /\ fnPc = "in"
    /\ \E n \in 0..MaxNumericRows, t \in 0..MaxTextRows, e \in 0..MaxEmptyRows :
          fnIn \in [columns : {<<"category", "amount">>},
                    rows : {AmountRows(n, t, e)},
                    resp : PlanAnswers]
    /\ fnOut = NoTable
    /\ fnOut2 = NoTable
    /\ AgentOff

PlanOnce ==
    /\ fnPc = "in"
    /\ fnOut' = planCharts(fnIn.columns, Slice(fnIn.rows, SampleCap), fnIn.resp)
    /\ fnPc' = "planned"
    /\ UNCHANGED <<agentVars, taskVars, replanVars, fnIn, fnOut2>>

NextPlan == PlanOnce

SpecPlan == InitPlan /\ [][NextPlan]_vars

\* the rows of the sample whose cell of column c is not empty
NonEmptyIn(rows, c) == {j \in 1..Len(rows) : ~IsEmptyCell(Get(rows[j], c))}

\* those whose cell is a number or a numeric string
NumericIn(rows, c) ==
    {j \in NonEmptyIn(rows, c) :
        Get(rows[j], c).t = "num" \/ IsPlainNumber(String(Get(rows[j], c)))}

\* the columns numeric in at least 70% of at least 5 non-empty cells
AtLeast70Percent(columns, rows) ==
    SelectSeq(columns, LAMBDA c :
        /\ Cardinality(NonEmptyIn(rows, c)) >= 5
        /\ 10 * Cardinality(NumericIn(rows, c)) >= 7 * Cardinality(NonEmptyIn(rows, c)))

\* C15: when the planner response is empty or cannot be parsed as a JSON array
\* of chart specs, planCharts returns exactly one fallback spec; if a column is
\* numeric in at least 70% of its non-empty cells over a sample with at least
\* 5 of them, the spec is a bar chart with agg mean, y the first such column
\* and x the first column.
C15_OneFallbackSpec ==
    (fnPc = "planned" /\ fnIn.resp.kind \in {"missing", "empty", "text", "object"}) =>
        /\ Len(fnOut) = 1
        /\ LET numerics == AtLeast70Percent(fnIn.columns, fnIn.rows)
           IN numerics # <<>> =>
                  /\ fnOut[1].type = "bar"
                  /\ fnOut[1].agg = "mean"
                  /\ fnOut[1].y = numerics[1]
                  /\ fnOut[1].x = fnIn.columns[1]

(***************************************************************************)
(* Claim about the failures recovered inside an ingestion (checked under   *)
(* Spec).                                                                  *)
(***************************************************************************)
\* the messages of the progress log events and of the warn event for the
\* missing binding
RoutineMessages ==
    {"Fetching dataset", "Parsing pasted data", "Parsed", "Cleaned data",
     "Ranking rows for embedding", "Vectorizing", "Planning charts & insights", "Done.",
     "Vectorize MEM binding missing"}

\* the messages of the exceptions that end the task
UncaughtMessages == FetchParseErrors \cup EmbedErrors \cup PlanErrors \cup {"write failed"}

\* a log, warn or error event that is neither routine nor the report of the
\* exception that ended the task
ReportsCaughtFailure(e) ==
    /\ e.ev \in {"log", "warn", "error"}
    /\ e.msg \notin RoutineMessages \cup UncaughtMessages

\* C16: every failure caught and recovered inside an ingestion (rank-service
\* failure, per-row embedding failure or wrong vector length, unparseable
\* planner response) causes at least one log, warn or error event on the
\* stream that reports it.
C16_CaughtFailureReported ==
    \A i \in Ingestions :
        (pc[i] = "done" /\ ~broken[i] /\ caught[i] # {}) =>
            \E j \in 1..Len(stream[i]) : ReportsCaughtFailure(stream[i][j])

(***************************************************************************)
(* Further claims about the Row Cleaner (checked under SpecClean).         *)
(***************************************************************************)
\* column c is empty ('', null or undefined) in every row of rows
EmptyInAll(rows, c) == \A j \in 1..Len(rows) : IsEmptyCell(Get(rows[j], c))

\* C17 as stated: after cleanRows no column that is empty in all surviving
\* rows is left in the returned columns or in a returned row, also when no
\* row survives.
C17_EmptyColumnsRemoved ==
    fnPc = "cleaned" =>
        /\ \A c \in Range(fnOut.columns) : ~EmptyInAll(fnOut.rows, c)
        /\ \A j \in 1..Len(fnOut.rows) :
               \A c \in DOMAIN fnOut.rows[j] : ~EmptyInAll(fnOut.rows, c)

\* C17 amended: when at least one row survives, no column that is empty in
\* all surviving rows is left in the returned columns or in a returned row;
\* when no row survives the columns are returned as they were given.
C17_EmptyColumnsRemovedIfRowsSurvive ==
    fnPc = "cleaned" =>
        IF fnOut.rows = <<>>
        THEN fnOut.columns = fnIn.columns
        ELSE /\ \A c \in Range(fnOut.columns) : ~EmptyInAll(fnOut.rows, c)
             /\ \A j \in 1..Len(fnOut.rows) :
                    \A c \in DOMAIN fnOut.rows[j] : ~EmptyInAll(fnOut.rows, c)

\* columns [a, b] with b '' in one row and null in the other: cleaning
\* returns columns [a] and both rows without b
C17_Witness ==
    /\ fnPc = "cleaned"
    /\ fnIn.columns = <<"a", "b">>
    /\ fnIn.rows = << [a |-> Num(1, 0), b |-> Str(<<>>)],
                      [a |-> Str(<<" ", "x">>), b |-> Null] >>
    /\ fnOut.columns = <<"a">>
    /\ fnOut.rows = << [a |-> Num(1, 0)], [a |-> Str(<<"x">>)] >>

\* the cleaned form of input row j as it is returned: cells trimmed and
\* coerced, keys those of the returned columns
ReturnedForm(j) == DeleteKeys(CleanRow(fnIn.columns, fnIn.rows[j]), fnOut.columns)

\* input rows that are not empty after cleaning
NonEmptyRow(j) == \E c \in Range(fnIn.columns) : ~IsEmptyCell(CleanRow(fnIn.columns, fnIn.rows[j])[c])

\* the first occurrences: non-empty rows with no equal row before them
FirstOccurrences ==
    {j \in 1..Len(fnIn.rows) :
        /\ NonEmptyRow(j)
        /\ \A k \in 1..(j - 1) : NonEmptyRow(k) => ReturnedForm(k) # ReturnedForm(j)}

\* the rows of the indices of S in increasing order
RECURSIVE InOrder(_)
InOrder(S) ==
    IF S = {} THEN <<>>
    ELSE LET j == CHOOSE x \in S : \A y \in S : x <= y
         IN <<ReturnedForm(j)>> \o InOrder(S \ {j})

\* C18: cleanRows returns no two rows that are structurally equal after
\* cleaning; of each group of equal cleaned rows exactly the first occurrence
\* is kept, and the surviving rows keep the relative order of the input.
C18_FirstOccurrencesInOrder ==
    fnPc = "cleaned" =>
        /\ \A j, k \in 1..Len(fnOut.rows) : j # k => fnOut.rows[j] # fnOut.rows[k]
        /\ fnOut.rows = InOrder(FirstOccurrences)

(***************************************************************************)
(* Claim about the cells of a cleaned table (checked under SpecJSON).      *)
(***************************************************************************)
\* C19: in every table the pipeline produces after cleaning, each cell is
\* either a number or a whitespace-trimmed string; never undefined, and
\* never a boolean, object or array.
C19_CellsNumberOrTrimmedString ==
    fnPc = "cleaned" =>
        \A j \in 1..Len(fnOut2.rows) :
            \A c \in DOMAIN fnOut2.rows[j] :
                LET v == fnOut2.rows[j][c]
                IN \/ v.t = "num"
                   \/ v.t = "str" /\ Trim(v.s) = v.s

(***************************************************************************)
(* The cleaning of one cell as a pure function.                            *)
(***************************************************************************)
MaxCellLen == 4

\* characters of the cells: a digit, the other characters of the pattern, a
\* blank, a letter
CellChars == {"1", "-", ".", ",", " ", "a"}

\* cells: every short string, the strings "1,234.5" (padded) and "abc", numbers
CellInputs ==
    {Str(s) : s \in SeqsUpTo(CellChars, MaxCellLen)}
        \cup {Str(<<" ", "1", ",", "2", "3", "4", ".", "5", " ">>), Str(<<"a", "b", "c">>),
              Num(12345, 1), Num(0 - 3, 0)}

InitCell ==
    /\ fnPc = "in"
    /\ fnIn \in CellInputs
    /\ fnOut = NoTable
    /\ fnOut2 = NoTable
    /\ AgentOff

CoerceOnce ==
    /\ fnPc = "in"
    /\ fnOut' = CleanCell(fnIn)
    /\ fnPc' = "coerced"
    /\ UNCHANGED <<agentVars, taskVars, replanVars, fnIn, fnOut2>>

NextCell == CoerceOnce

SpecCell == InitCell /\ [][NextCell]_vars

\* s consists only of digits, '-', '.' and ','
OnlyNumberChars(s) == s # <<>> /\ \A k \in 1..Len(s) : s[k] \in Digits \cup {"-", ".", ","}

\* s without its commas
WithoutCommas(s) == SelectSeq(s, LAMBDA ch : ch # ",")

\* C20: a string cell is first trimmed; it becomes a number iff the trimmed
\* string consists only of digits, '-', '.' and ',' and parses as a float once
\* the commas are removed (" 1,234.5 " becomes 1234.5); a matching string that
\* fails to parse and every non-matching string ("abc") is kept as the trimmed
\* string; a cell that is already a number is unchanged.
C20_TrimThenCoerce ==
    fnPc = "coerced" =>
        /\ fnIn.t = "num" => fnOut = fnIn
        /\ fnIn.t = "str" =>
               LET s == Trim(fnIn.s)
                   n == ParseFloat(WithoutCommas(s))
               IN /\ fnOut.t = "num" <=> (OnlyNumberChars(s) /\ n.t = "num")
                  /\ fnOut.t = "num" => fnOut = n
                  /\ fnOut.t # "num" => fnOut = Str(s)
        /\ fnIn = Str(<<" ", "1", ",", "2", "3", "4", ".", "5", " ">>) => fnOut = Num(12345, 1)
        /\ fnIn = Str(<<"a", "b", "c">>) => fnOut = Str(<<"a", "b", "c">>)
        /\ fnIn = Str(<<" ", "-", ".", " ">>) => fnOut = Str(<<"-", ".">>)
        /\ fnIn = Str(<<"1", ",", "1", "1">>) => fnOut = Num(111, 0)

\* the padded string " 1,234.5 " was coerced to the number 1234.5
C20_Witness ==
    /\ fnPc = "coerced"
    /\ fnIn = Str(<<" ", "1", ",", "2", "3", "4", ".", "5", " ">>)
    /\ fnOut = Num(12345, 1)

(***************************************************************************)
(* The CSV tokenizer on arbitrary short texts.                             *)
(***************************************************************************)
MaxCsvLen == 6

\* characters of the texts: a letter, the comma, the double quote, the
\* newline, a blank
CsvChars == {"a", ",", "\"", "\n", " "}

InitCsvText ==
    /\ fnPc = "in"
    /\ fnIn \in SeqsUpTo(CsvChars, MaxCsvLen)
    /\ fnOut = NoTable
    /\ fnOut2 = NoTable
    /\ AgentOff

TokenizeOnce ==
    /\ fnPc = "in"
    /\ fnOut' = parseCSV(fnIn)
    /\ fnPc' = "tokenized"
    /\ UNCHANGED <<agentVars, taskVars, replanVars, fnIn, fnOut2>>

NextCsvText == TokenizeOnce

SpecCsvText == InitCsvText /\ [][NextCsvText]_vars

\* the non-blank lines of the text
NonBlankLines(text) == SelectSeq(SplitFrom(text, "\n", <<>>, <<>>), LAMBDA l : l # <<>>)

\* the synthetic name of the header cell at 0-based position n
SyntheticName(n) == <<"c", "o", "l">> \o IntToDigits(n, 1)

\* C21: parseCSV names a blank header cell col<index> (0-based) in the
\* returned column list, and every returned row has exactly the returned
\* columns as its keys: a missing trailing field is the empty string, fields
\* beyond the header are ignored.
C21_BlankHeaderNamedRowsKeyed ==
    (fnPc = "tokenized" /\ NonBlankLines(fnIn) # <<>>) =>
        LET lines == NonBlankLines(fnIn)
            cells == parseLine(lines[1])
            named == [i \in 1..Len(cells) |->
                         IF Trim(cells[i]) = <<>> THEN SyntheticName(i - 1) ELSE Trim(cells[i])]
        IN /\ fnOut.columns = named
           /\ Len(fnOut.rows) = Len(lines) - 1
           /\ \A j \in 1..Len(fnOut.rows) :
                  /\ DOMAIN fnOut.rows[j] = Range(fnOut.columns)
                  /\ LET vals == parseLine(lines[j + 1])
                     IN \A i \in 1..Len(named) :
                            (\A k \in (i + 1)..Len(named) : named[k] # named[i]) =>
                                fnOut.rows[j][named[i]]
                                    = Str(IF i <= Len(vals) THEN vals[i] ELSE <<>>)

\* the records of the text when a newline inside a quoted field does not end
\* the record: the text split at the newlines outside quotes
RECURSIVE RecordsFrom(_, _, _, _)
RecordsFrom(text, inQ, cur, out) ==
    IF text = <<>> THEN Append(out, cur)
    ELSE IF Head(text) = "\n" /\ ~inQ THEN RecordsFrom(Tail(text), FALSE, <<>>, Append(out, cur))
    ELSE RecordsFrom(Tail(text), IF Head(text) = "\"" THEN ~inQ ELSE inQ,
                     Append(cur, Head(text)), out)

NonBlankRecords(text) == SelectSeq(RecordsFrom(text, FALSE, <<>>, <<>>), LAMBDA l : l # <<>>)

\* the fields of a record: split at the commas outside quotes, the wrapping
\* quotes removed, a doubled quote inside quotes read as one quote
RECURSIVE FieldsFrom(_, _, _, _)
FieldsFrom(rec, inQ, cur, out) ==
    IF rec = <<>> THEN Append(out, cur)
    ELSE IF inQ /\ Len(rec) >= 2 /\ rec[1] = "\"" /\ rec[2] = "\""
    THEN FieldsFrom(Tail(Tail(rec)), TRUE, Append(cur, "\""), out)
    ELSE IF Head(rec) = "\"" THEN FieldsFrom(Tail(rec), ~inQ, cur, out)
    ELSE IF Head(rec) = "," /\ ~inQ THEN FieldsFrom(Tail(rec), FALSE, <<>>, Append(out, cur))
    ELSE FieldsFrom(Tail(rec), inQ, Append(cur, Head(rec)), out)

\* C22: in parseCSV a field wrapped in double quotes may contain commas and
\* newlines without being split into several fields or several rows; inside
\* a quoted field a doubled double quote yields one literal double quote and
\* a single double quote ends the quoting.
C22_QuotedFieldsKeptWhole ==
    (fnPc = "tokenized" /\ NonBlankRecords(fnIn) # <<>>) =>
        LET recs == NonBlankRecords(fnIn)
            head == FieldsFrom(recs[1], FALSE, <<>>, <<>>)
            key(i) == IF Trim(head[i]) = <<>> THEN SyntheticName(i - 1) ELSE Trim(head[i])
        IN /\ Len(fnOut.columns) = Len(head)
           /\ Len(fnOut.rows) = Len(recs) - 1
           /\ \A j \in 1..Len(fnOut.rows) :
                  LET vals == FieldsFrom(recs[j + 1], FALSE, <<>>, <<>>)
                  IN \A i \in 1..Len(head) :
                         (\A k \in (i + 1)..Len(head) : key(k) # key(i)) =>
                             /\ key(i) \in DOMAIN fnOut.rows[j]
                             /\ fnOut.rows[j][key(i)]
                                    = Str(IF i <= Len(vals) THEN vals[i] ELSE <<>>)

(***************************************************************************)
(* Column discovery on lists that straddle the 400-item cap.               *)
(***************************************************************************)
MaxDiscoverHead == 1
MaxDiscoverTail == 2

\* the record {z:1}
RecZ == JObj(<<"z">>, [z |-> Num(1, 0)])

\* the lists, kept by their three parts: a few items (records, null, a nested
\* array), the length of a run of numbers ending around the cap, a few items
DiscoverInputs ==
    LET items == {RecX, RecYX, RecZ, Null, JArr(<<RecX>>)}
    IN [head : SeqsUpTo(items, MaxDiscoverHead),
        run : (DiscoverCap - 2)..DiscoverCap,
        tail : SeqsUpTo(items, MaxDiscoverTail)]

\* the list itself; the numbers of the run carry no key
ItemList(in) == in.head \o [i \in 1..in.run |-> Num(1, 0)] \o in.tail

InitDiscover ==
    /\ fnPc = "in"
    /\ fnIn \in DiscoverInputs
    /\ fnOut = NoTable
    /\ fnOut2 = NoTable
    /\ AgentOff

DiscoverOnce ==
    /\ fnPc = "in"
    /\ fnOut' = discoverColumnsFromObjects(ItemList(fnIn))
    /\ fnPc' = "discovered"
    /\ UNCHANGED <<agentVars, taskVars, replanVars, fnIn, fnOut2>>

NextDiscover == DiscoverOnce

SpecDiscover == InitDiscover /\ [][NextDiscover]_vars

\* positions of the non-array object items among the first 400
ObjectPositions(objs) == {i \in 1..Min(DiscoverCap, Len(objs)) : objs[i].t = "obj"}

\* own keys of those items
KeysWithinCap(objs) == UNION {Range(objs[i].keys) : i \in ObjectPositions(objs)}

\* where a key is first seen: the first item holding it, and its place there
FirstItem(objs, k) ==
    LET holders == {i \in ObjectPositions(objs) : k \in Range(objs[i].keys)}
    IN CHOOSE i \in holders : \A j \in holders : i <= j

PlaceIn(keys, k) == CHOOSE p \in DOMAIN keys : keys[p] = k /\ \A q \in 1..(p - 1) : keys[q] # k

FirstRows(i) ==
    [j \in 1..Min(EmbedCap, Len(table[i].rows)) |-> [defined |-> TRUE, row |-> table[i].rows[j]]]

\* C24: the rows rankRowsForEmbedding hands to embedding are at most 200 and
\* each is an actual row of the cleaned table (every index that is used lies
\* within the table); when the rank call throws or answers no JSON they are
\* exactly the first min(200, n) rows.
C24_ChosenRowsAreTableRows ==
    \A i \in Ingestions :
        /\ Len(chosen[i]) <= EmbedCap
        /\ \A j \in DOMAIN chosen[i] :
               /\ chosen[i][j].defined
               /\ \E n \in DOMAIN table[i].rows : chosen[i][j].row = table[i].rows[n]
        /\ "rank" \in caught[i] => chosen[i] = FirstRows(i)

(***************************************************************************)
(* /replan_charts against an agent that already holds a snapshot.          *)
(***************************************************************************)
\* the snapshot a finished ingestion of dataset B has left in this.state: the
\* cleaned table of B, one column and two rows
StoredSchema ==
    [defined |-> TRUE, name |-> ProvidedName("B"), url |-> Url("B"),
     columns |-> <<"a">>,
     sample |-> <<[a |-> Num(2, 0)], [a |-> Str(<<"x", "2">>)]>>]

\* One /dataset_stream request (ingestion "A") and /replan_charts requests at
\* any moment against an agent with the Vectorize binding whose state is the
\* initial one or holds the snapshot and the instruction of an earlier
\* ingestion.
InitReplan ==
    /\ env = [MEM |-> TRUE]
    /\ pc = [i \in Ingestions |-> IF i = "A" THEN "idle" ELSE "off"]
    /\ state \in {initialState,
                  [initialState EXCEPT !.lastSchema = StoredSchema, !.lastSys = Sys("B")]}
    /\ IdleTasks
    /\ IdleHarness

SpecReplan == InitReplan /\ [][Next]_vars

\* a step of the /replan_charts handler
ReplanStep == rpc' # rpc \/ rcount' # rcount

\* C25: a /replan_charts request answers 400 and leaves the state unchanged
\* when no snapshot is stored; when one is stored it plans from that snapshot
\* and changes only lastSys; no step of the handler creates, modifies or
\* clears lastSchema, also when an ingestion writes the state between the
\* handler's steps.
C25_ReplanChangesOnlyLastSys ==
    [][ReplanStep =>
          /\ [state' EXCEPT !.lastSys = state.lastSys] = state
          /\ (rcount' # rcount /\ ~state.lastSchema.defined) =>
                 (rresp' = 400 /\ state' = state /\ rpc' = "idle")
          /\ (rcount' # rcount /\ state.lastSchema.defined) =>
                 (rresp' # 400 /\ rmem' = state.lastSchema /\ rpc' = "planning")
          /\ (rpc = "planning" /\ rresp' = 200) => state'.lastSys = ReplanSys]_vars

\* a replan has answered 200 and set lastSys while the snapshot it planned
\* from has been replaced by the running ingestion, whose snapshot is kept
C25_Witness ==
    /\ rresp = 200
    /\ rpc = "idle"
    /\ state.lastSys = ReplanSys
    /\ rmem = StoredSchema
    /\ state.lastSchema.defined
    /\ state.lastSchema # rmem
    /\ pc["A"] \notin {"idle", "done"}

====
